---- MODULE Spec2Model ----
(***************************************************************************)
(* Poll registry contract (src/src/contract.rs): a singleton CONFIG item,  *)
(* a POLLS map keyed by the question string, and the three entry points    *)
(* instantiate, execute (CreatePoll, Vote) and query (GetPoll, GetConfig). *)
(* Each entry point is a pure operator from (storage, message) to          *)
(* (storage, result); the actions apply it to the store and record the     *)
(* call and its result.                                                    *)
(***************************************************************************)
EXTENDS Integers, Sequences, FiniteSets, TLC

\* storage: the contract's key-value store (contract_info, CONFIG, POLLS)
\* last:    the most recent call and the result it returned
\* created: questions for which a CreatePoll has succeeded
\* tally:   per question and choice string, the number of votes that
\*          succeeded since the question's poll was created
\* prev_read: when the latest call is a query that repeats the call right
\*          before it, the result of that earlier call
\* inflight: per process, the execution it has begun and not yet finished
\*          (used when executions are allowed to interleave)
\* overlapped: whether some execution has begun while another one was
\*          in flight
\* creates: per question, the number of CreatePoll calls that succeeded
\* calls:   the number of executions begun by the processes
VARIABLES storage, last, created, tally, prev_read,
          inflight, overlapped, creates, calls

concvars == <<inflight, overlapped, creates, calls>>

vars == <<storage, last, created, tally, prev_read, concvars>>

\* ------------------------------------------------------------------------
\* Bounds and input sets

\* Largest value a vote counter is driven to.
MaxVotes == 2

\* Question strings: compared verbatim, so "Q" and "q" are two keys.
Questions == {"Q", "q"}

\* Choice strings sent with Vote.
Choices == {"yes", "no", "Yes", "maybe"}

\* Admin addresses sent with instantiate; "" is rejected by validation.
Addresses == {"addr1", "addr2", ""}

\* Message senders (MessageInfo.sender).
Senders == {"addr1", "addr2"}

\* Processes that execute commands when executions may interleave, and the
\* largest number of executions they begin.
Procs == {1, 2}
MaxCalls == 4

\* ------------------------------------------------------------------------
\* Values

None == [some |-> FALSE]
Some(v) == [some |-> TRUE, val |-> v]

Ok(v) == [ok |-> TRUE, val |-> v]
Err(e) == [ok |-> FALSE, err |-> e]

CustomError(val) == [kind |-> "CustomError", val |-> val]
StdError(val) == [kind |-> "Std", val |-> val]

CONTRACT_NAME == "crates.io:mycosmwasm"
CONTRACT_VERSION == "CARGO_PKG_VERSION"

attr(key, value) == <<key, value>>
Response(attributes) == [attributes |-> attributes]

Config(admin_address) == [admin_address |-> admin_address]
Poll(question, yes_votes, no_votes) ==
    [question |-> question, yes_votes |-> yes_votes, no_votes |-> no_votes]

\* ------------------------------------------------------------------------
\* Storage primitives

EmptyStorage ==
    [contract_info |-> None, CONFIG |-> None, POLLS |-> [q \in Questions |-> None]]

set_contract_version(st, name, version) ==
    [st EXCEPT !.contract_info = Some([contract |-> name, version |-> version])]

addr_validate(human) ==
    IF human = "" THEN Err(StdError("GenericErr")) ELSE Ok(human)

CONFIG_save(st, config) == [st EXCEPT !.CONFIG = Some(config)]

CONFIG_load(st) ==
    IF st.CONFIG.some THEN Ok(st.CONFIG.val) ELSE Err(StdError("NotFound"))

POLLS_has(st, question) == st.POLLS[question].some

POLLS_load(st, question) ==
    IF st.POLLS[question].some THEN Ok(st.POLLS[question].val)
    ELSE Err(StdError("NotFound"))

POLLS_may_load(st, question) == st.POLLS[question]

POLLS_save(st, question, poll) == [st EXCEPT !.POLLS[question] = Some(poll)]

\* ------------------------------------------------------------------------
\* Entry points: each yields [storage |-> ..., result |-> ...]

\* Variant: a second initialization is rejected.
instantiate_guarded(st, info, msg) ==
    LET s1 == set_contract_version(st, CONTRACT_NAME, CONTRACT_VERSION)
        validated_admin_address == addr_validate(msg.admin_address)
    IN  IF st.CONFIG.some
        THEN [storage |-> st, result |-> Err(CustomError("already initialized"))]
        ELSE IF ~validated_admin_address.ok
        THEN [storage |-> s1, result |-> Err(validated_admin_address.err)]
        ELSE [storage |-> CONFIG_save(s1, Config(validated_admin_address.val)),
              result |-> Ok(Response(<<attr("action", "instantiate")>>))]

\* Variant: an address that fails validation is replaced by an empty admin.
instantiate_defaulting(st, info, msg) ==
    LET s1 == set_contract_version(st, CONTRACT_NAME, CONTRACT_VERSION)
        validated_admin_address == addr_validate(msg.admin_address)
    IN  IF ~validated_admin_address.ok
        THEN [storage |-> CONFIG_save(s1, Config("")),
              result |-> Err(validated_admin_address.err)]
        ELSE [storage |-> CONFIG_save(s1, Config(validated_admin_address.val)),
              result |-> Ok(Response(<<attr("action", "instantiate")>>))]

instantiate(st, info, msg) ==
    LET s1 == set_contract_version(st, CONTRACT_NAME, CONTRACT_VERSION)
        validated_admin_address == addr_validate(msg.admin_address)
    IN  IF ~validated_admin_address.ok
        THEN [storage |-> s1, result |-> Err(validated_admin_address.err)]
        ELSE [storage |-> CONFIG_save(s1, Config(validated_admin_address.val)),
              result |-> Ok(Response(<<attr("action", "instantiate")>>))]

\* Variant: the existence check is missing, the save is unconditional.
execute_create_poll_unchecked(st, info, question) ==
    [storage |-> POLLS_save(st, question, Poll(question, 0, 0)),
     result |-> Ok(Response(<<attr("action", "create_poll")>>))]

\* Variant: the poll is saved before the duplicate is reported.
execute_create_poll_save_first(st, info, question) ==
    LET saved == POLLS_save(st, question, Poll(question, 0, 0))
    IN  IF POLLS_has(st, question)
        THEN [storage |-> saved, result |-> Err(CustomError("key already taken"))]
        ELSE [storage |-> saved,
              result |-> Ok(Response(<<attr("action", "create_poll")>>))]

\* Variant: the new poll starts with one yes vote.
execute_create_poll_off_by_one(st, info, question) ==
    IF POLLS_has(st, question)
    THEN [storage |-> st, result |-> Err(CustomError("key already taken"))]
    ELSE [storage |-> POLLS_save(st, question, Poll(question, 1, 0)),
          result |-> Ok(Response(<<attr("action", "create_poll")>>))]

\* Variant: the creator of a poll is recorded as the admin.
execute_create_poll_sets_admin(st, info, question) ==
    IF POLLS_has(st, question)
    THEN [storage |-> st, result |-> Err(CustomError("key already taken"))]
    ELSE [storage |-> CONFIG_save(POLLS_save(st, question, Poll(question, 0, 0)),
                                  Config(info)),
          result |-> Ok(Response(<<attr("action", "create_poll")>>))]

execute_create_poll(st, info, question) ==
    IF POLLS_has(st, question)
    THEN [storage |-> st, result |-> Err(CustomError("key already taken"))]
    ELSE [storage |-> POLLS_save(st, question, Poll(question, 0, 0)),
          result |-> Ok(Response(<<attr("action", "create_poll")>>))]

\* Variant: the "no" arm increments yes_votes.
execute_vote_no_counts_yes(st, info, question, choice) ==
    IF ~POLLS_has(st, question)
    THEN [storage |-> st, result |-> Err(CustomError("poll doesn't exist!"))]
    ELSE LET poll == POLLS_load(st, question).val
         IN  CASE choice \in {"yes", "no"} ->
                    [storage |-> POLLS_save(st, question,
                                    [poll EXCEPT !.yes_votes = @ + 1]),
                     result |-> Ok(Response(<<attr("action", "vote")>>))]
               [] OTHER ->
                    [storage |-> st, result |-> Err(CustomError("invalid choice"))]

\* Variant: the choice is validated before the existence check.
execute_vote_choice_first(st, info, question, choice) ==
    IF choice \notin {"yes", "no"}
    THEN [storage |-> st, result |-> Err(CustomError("invalid choice"))]
    ELSE IF ~POLLS_has(st, question)
    THEN [storage |-> st, result |-> Err(CustomError("poll doesn't exist!"))]
    ELSE LET poll == POLLS_load(st, question).val
         IN  [storage |-> POLLS_save(st, question,
                             IF choice = "yes"
                             THEN [poll EXCEPT !.yes_votes = @ + 1]
                             ELSE [poll EXCEPT !.no_votes = @ + 1]),
              result |-> Ok(Response(<<attr("action", "vote")>>))]

\* Variant: a missing poll is created by the vote (load falls back to 0/0).
execute_vote_upsert(st, info, question, choice) ==
    LET poll == IF POLLS_has(st, question) THEN POLLS_load(st, question).val
                ELSE Poll(question, 0, 0)
    IN  CASE choice = "yes" ->
               [storage |-> POLLS_save(st, question,
                               [poll EXCEPT !.yes_votes = @ + 1]),
                result |-> Ok(Response(<<attr("action", "vote")>>))]
          [] choice = "no" ->
               [storage |-> POLLS_save(st, question,
                               [poll EXCEPT !.no_votes = @ + 1]),
                result |-> Ok(Response(<<attr("action", "vote")>>))]
          [] OTHER ->
               [storage |-> st, result |-> Err(CustomError("invalid choice"))]

\* Variant: the choice is matched without regard to case.
execute_vote_case_insensitive(st, info, question, choice) ==
    IF ~POLLS_has(st, question)
    THEN [storage |-> st, result |-> Err(CustomError("poll doesn't exist!"))]
    ELSE LET poll == POLLS_load(st, question).val
         IN  CASE choice \in {"yes", "Yes"} ->
                    [storage |-> POLLS_save(st, question,
                                    [poll EXCEPT !.yes_votes = @ + 1]),
                     result |-> Ok(Response(<<attr("action", "vote")>>))]
               [] choice \in {"no", "No"} ->
                    [storage |-> POLLS_save(st, question,
                                    [poll EXCEPT !.no_votes = @ + 1]),
                     result |-> Ok(Response(<<attr("action", "vote")>>))]
               [] OTHER ->
                    [storage |-> st, result |-> Err(CustomError("invalid choice"))]

\* Variant: the saved record is rebuilt, the other counter starts at 0.
execute_vote_fresh_record(st, info, question, choice) ==
    IF ~POLLS_has(st, question)
    THEN [storage |-> st, result |-> Err(CustomError("poll doesn't exist!"))]
    ELSE LET poll == POLLS_load(st, question).val
         IN  CASE choice = "yes" ->
                    [storage |-> POLLS_save(st, question,
                                    Poll(question, poll.yes_votes + 1, 0)),
                     result |-> Ok(Response(<<attr("action", "vote")>>))]
               [] choice = "no" ->
                    [storage |-> POLLS_save(st, question,
                                    Poll(question, 0, poll.no_votes + 1)),
                     result |-> Ok(Response(<<attr("action", "vote")>>))]
               [] OTHER ->
                    [storage |-> st, result |-> Err(CustomError("invalid choice"))]

\* The key with its letters folded to lower case.
NormalizedKey(question) == IF question = "Q" THEN "q" ELSE question

\* Variant: the question is normalised before it is used as the key.
execute_vote_normalized_key(st, info, question, choice) ==
    LET key == NormalizedKey(question)
    IN  IF ~POLLS_has(st, key)
        THEN [storage |-> st, result |-> Err(CustomError("poll doesn't exist!"))]
        ELSE LET poll == POLLS_load(st, key).val
             IN  CASE choice = "yes" ->
                        [storage |-> POLLS_save(st, key,
                                        [poll EXCEPT !.yes_votes = @ + 1]),
                         result |-> Ok(Response(<<attr("action", "vote")>>))]
                   [] choice = "no" ->
                        [storage |-> POLLS_save(st, key,
                                        [poll EXCEPT !.no_votes = @ + 1]),
                         result |-> Ok(Response(<<attr("action", "vote")>>))]
                   [] OTHER ->
                        [storage |-> st,
                         result |-> Err(CustomError("invalid choice"))]

\* Variant: the vote response carries the attribute of create_poll.
execute_vote_wrong_action(st, info, question, choice) ==
    IF ~POLLS_has(st, question)
    THEN [storage |-> st, result |-> Err(CustomError("poll doesn't exist!"))]
    ELSE LET poll == POLLS_load(st, question).val
         IN  CASE choice = "yes" ->
                    [storage |-> POLLS_save(st, question,
                                    [poll EXCEPT !.yes_votes = @ + 1]),
                     result |-> Ok(Response(<<attr("action", "create_poll")>>))]
               [] choice = "no" ->
                    [storage |-> POLLS_save(st, question,
                                    [poll EXCEPT !.no_votes = @ + 1]),
                     result |-> Ok(Response(<<attr("action", "create_poll")>>))]
               [] OTHER ->
                    [storage |-> st, result |-> Err(CustomError("invalid choice"))]

execute_vote(st, info, question, choice) ==
    IF ~POLLS_has(st, question)
    THEN [storage |-> st, result |-> Err(CustomError("poll doesn't exist!"))]
    ELSE LET poll == POLLS_load(st, question).val
         IN  CASE choice = "yes" ->
                    [storage |-> POLLS_save(st, question,
                                    [poll EXCEPT !.yes_votes = @ + 1]),
                     result |-> Ok(Response(<<attr("action", "vote")>>))]
               [] choice = "no" ->
                    [storage |-> POLLS_save(st, question,
                                    [poll EXCEPT !.no_votes = @ + 1]),
                     result |-> Ok(Response(<<attr("action", "vote")>>))]
               [] OTHER ->
                    [storage |-> st, result |-> Err(CustomError("invalid choice"))]

\* Variant: commands are accepted from the configured admin only.
execute_admin_only(st, info, msg) ==
    IF ~(st.CONFIG.some /\ st.CONFIG.val.admin_address = info)
    THEN [storage |-> st, result |-> Err(CustomError("unauthorized"))]
    ELSE CASE msg.type = "CreatePoll" ->
                  execute_create_poll(st, info, msg.question)
           [] msg.type = "Vote" ->
                  execute_vote(st, info, msg.question, msg.choice)

execute(st, info, msg) ==
    CASE msg.type = "CreatePoll" -> execute_create_poll(st, info, msg.question)
      [] msg.type = "Vote" -> execute_vote(st, info, msg.question, msg.choice)

\* ------------------------------------------------------------------------
\* The two halves of each command, for executions that may be interleaved
\* between the read and the write.  The first half yields either a final
\* result (done) or the local state carried to the second half.

\* Variant: the existence check never rejects.
execute_create_poll_check_absent(st, info, question) == [done |-> FALSE]

execute_create_poll_check(st, info, question) ==
    IF POLLS_has(st, question)
    THEN [done |-> TRUE, result |-> Err(CustomError("key already taken"))]
    ELSE [done |-> FALSE]

execute_create_poll_save(st, info, question) ==
    [storage |-> POLLS_save(st, question, Poll(question, 0, 0)),
     result |-> Ok(Response(<<attr("action", "create_poll")>>))]

\* Variant: the "no" arm leaves the loaded poll as it is.
execute_vote_load_no_uncounted(st, info, question, choice) ==
    IF ~POLLS_has(st, question)
    THEN [done |-> TRUE, result |-> Err(CustomError("poll doesn't exist!"))]
    ELSE LET poll == POLLS_load(st, question).val
         IN  CASE choice = "yes" ->
                    [done |-> FALSE, poll |-> [poll EXCEPT !.yes_votes = @ + 1]]
               [] choice = "no" ->
                    [done |-> FALSE, poll |-> poll]
               [] OTHER ->
                    [done |-> TRUE, result |-> Err(CustomError("invalid choice"))]

execute_vote_load(st, info, question, choice) ==
    IF ~POLLS_has(st, question)
    THEN [done |-> TRUE, result |-> Err(CustomError("poll doesn't exist!"))]
    ELSE LET poll == POLLS_load(st, question).val
         IN  CASE choice = "yes" ->
                    [done |-> FALSE, poll |-> [poll EXCEPT !.yes_votes = @ + 1]]
               [] choice = "no" ->
                    [done |-> FALSE, poll |-> [poll EXCEPT !.no_votes = @ + 1]]
               [] OTHER ->
                    [done |-> TRUE, result |-> Err(CustomError("invalid choice"))]

execute_vote_save(st, info, question, poll) ==
    [storage |-> POLLS_save(st, question, poll),
     result |-> Ok(Response(<<attr("action", "vote")>>))]

\* ------------------------------------------------------------------------
\* Binary encoding of query responses (JSON objects as ordered field lists)

JsonNull == [t |-> "null"]
JsonString(s) == [t |-> "string", v |-> s]
JsonNumber(n) == [t |-> "number", v |-> n]
JsonObject(fields) == [t |-> "object", fields |-> fields]

PollToJson(poll) ==
    JsonObject(<<<<"question", JsonString(poll.question)>>,
                 <<"yes_votes", JsonNumber(poll.yes_votes)>>,
                 <<"no_votes", JsonNumber(poll.no_votes)>>>>)

to_binary_GetPollResponse(resp) ==
    JsonObject(<<<<"poll", IF resp.poll.some THEN PollToJson(resp.poll.val)
                           ELSE JsonNull>>>>)

to_binary_Config(config) ==
    JsonObject(<<<<"admin_address", JsonString(config.admin_address)>>>>)

from_binary_GetPollResponse(bin) ==
    LET p == bin.fields[1][2]
    IN  [poll |-> IF p.t = "null" THEN None
                  ELSE Some(Poll(p.fields[1][2].v, p.fields[2][2].v,
                                 p.fields[3][2].v))]

from_binary_Config(bin) == Config(bin.fields[1][2].v)

\* ------------------------------------------------------------------------
\* Queries: read-only, yield a result

\* Variant: the poll is read with load, so an absent key is an error.
query_get_poll_load(st, question) ==
    LET poll == POLLS_load(st, question)
    IN  IF poll.ok THEN Ok(to_binary_GetPollResponse([poll |-> Some(poll.val)]))
        ELSE Err(poll.err)

query_get_poll(st, question) ==
    LET poll == POLLS_may_load(st, question)
    IN  Ok(to_binary_GetPollResponse([poll |-> poll]))

\* Variant: a missing Configuration is answered with a default one.
query_config_default(st, msg) ==
    CASE msg.type = "GetPoll" -> query_get_poll(st, msg.question)
      [] msg.type = "GetConfig" ->
            LET config == CONFIG_load(st)
            IN  IF config.ok THEN Ok(to_binary_Config(config.val))
                ELSE Ok(to_binary_Config(Config("")))

query(st, msg) ==
    CASE msg.type = "GetPoll" -> query_get_poll(st, msg.question)
      [] msg.type = "GetConfig" ->
            LET config == CONFIG_load(st)
            IN  IF config.ok THEN Ok(to_binary_Config(config.val))
                ELSE Err(config.err)

\* ------------------------------------------------------------------------
\* State machine

Idle == [pc |-> "idle"]

Init ==
    /\ storage = EmptyStorage
    /\ last = [op |-> "none"]
    /\ created = {}
    /\ tally = [q \in Questions |-> [c \in Choices |-> 0]]
    /\ prev_read = None
    /\ inflight = [p \in Procs |-> Idle]
    /\ overlapped = FALSE
    /\ creates = [q \in Questions |-> 0]
    /\ calls = 0

Instantiate(sender, admin_address) ==
    LET msg == [admin_address |-> admin_address]
        r == instantiate(storage, sender, msg)
    IN  /\ storage' = r.storage
        /\ last' = [op |-> "instantiate", sender |-> sender, msg |-> msg,
                    result |-> r.result]
        /\ prev_read' = None
        /\ UNCHANGED <<created, tally, concvars>>

ExecuteCreatePoll(sender, question) ==
    LET msg == [type |-> "CreatePoll", question |-> question]
        r == execute(storage, sender, msg)
    IN  /\ storage' = r.storage
        /\ last' = [op |-> "execute", sender |-> sender, msg |-> msg,
                    result |-> r.result]
        /\ created' = IF r.result.ok THEN created \cup {question} ELSE created
        /\ tally' = IF r.result.ok
                     THEN [tally EXCEPT ![question] = [c \in Choices |-> 0]]
                     ELSE tally
        /\ prev_read' = None
        /\ UNCHANGED concvars

\* A vote that would drive a counter past MaxVotes is not explored.
VoteWithinBound(question, choice) ==
    LET p == storage.POLLS[question]
    IN  p.some =>
          /\ choice = "yes" => p.val.yes_votes < MaxVotes
          /\ choice = "no" => p.val.no_votes < MaxVotes

ExecuteVote(sender, question, choice) ==
    LET msg == [type |-> "Vote", question |-> question, choice |-> choice]
        r == execute(storage, sender, msg)
    IN  /\ VoteWithinBound(question, choice)
        /\ storage' = r.storage
        /\ last' = [op |-> "execute", sender |-> sender, msg |-> msg,
                    result |-> r.result]
        /\ tally' = IF r.result.ok
                     THEN [tally EXCEPT ![question][choice] = @ + 1]
                     ELSE tally
        /\ prev_read' = None
        /\ UNCHANGED <<created, concvars>>

\* The result of the call right before this one, if it was the same query.
PreviousRead(msg) ==
    IF last.op = "query" /\ last.msg = msg THEN Some(last.result) ELSE None

\* Variant: the read removes the poll it returns.
QueryGetPoll_consuming(question) ==
    LET msg == [type |-> "GetPoll", question |-> question]
    IN  /\ last' = [op |-> "query", msg |-> msg, result |-> query(storage, msg)]
        /\ prev_read' = PreviousRead(msg)
        /\ storage' = [storage EXCEPT !.POLLS[question] = None]
        /\ UNCHANGED <<created, tally, concvars>>

QueryGetPoll(question) ==
    LET msg == [type |-> "GetPoll", question |-> question]
    IN  /\ last' = [op |-> "query", msg |-> msg, result |-> query(storage, msg)]
        /\ prev_read' = PreviousRead(msg)
        /\ UNCHANGED <<storage, created, tally, concvars>>

QueryGetConfig ==
    LET msg == [type |-> "GetConfig"]
    IN  /\ last' = [op |-> "query", msg |-> msg, result |-> query(storage, msg)]
        /\ prev_read' = PreviousRead(msg)
        /\ UNCHANGED <<storage, created, tally, concvars>>

Next ==
    \/ \E s \in Senders, a \in Addresses : Instantiate(s, a)
    \/ \E s \in Senders, q \in Questions : ExecuteCreatePoll(s, q)
    \/ \E s \in Senders, q \in Questions, c \in Choices : ExecuteVote(s, q, c)
    \/ \E q \in Questions : QueryGetPoll(q)
    \/ QueryGetConfig

Spec == Init /\ [][Next]_vars

\* ------------------------------------------------------------------------
\* Interleaved executions: each process runs one command at a time, and
\* another process may take steps between a command's read and its write.

ProcSender(p) == IF p = 1 THEN "addr1" ELSE "addr2"

OthersInFlight(p) == \E o \in Procs \ {p} : inflight[o] # Idle

CreatePollCheck(p, question) ==
    LET msg == [type |-> "CreatePoll", question |-> question]
        r == execute_create_poll_check(storage, ProcSender(p), question)
    IN  /\ inflight[p] = Idle
        /\ calls < MaxCalls
        /\ calls' = calls + 1
        /\ overlapped' = (overlapped \/ OthersInFlight(p))
        /\ IF r.done
           THEN /\ last' = [op |-> "execute", sender |-> ProcSender(p),
                            msg |-> msg, result |-> r.result]
                /\ UNCHANGED inflight
           ELSE /\ inflight' = [inflight EXCEPT
                                   ![p] = [pc |-> "create_save", msg |-> msg]]
                /\ UNCHANGED last
        /\ UNCHANGED <<storage, created, tally, prev_read, creates>>

CreatePollSave(p) ==
    /\ inflight[p].pc = "create_save"
    /\ LET msg == inflight[p].msg
           r == execute_create_poll_save(storage, ProcSender(p), msg.question)
       IN  /\ storage' = r.storage
           /\ last' = [op |-> "execute", sender |-> ProcSender(p),
                       msg |-> msg, result |-> r.result]
           /\ created' = created \cup {msg.question}
           /\ creates' = [creates EXCEPT ![msg.question] = @ + 1]
    /\ inflight' = [inflight EXCEPT ![p] = Idle]
    /\ UNCHANGED <<tally, prev_read, overlapped, calls>>

VoteLoad(p, question, choice) ==
    LET msg == [type |-> "Vote", question |-> question, choice |-> choice]
        r == execute_vote_load(storage, ProcSender(p), question, choice)
    IN  /\ inflight[p] = Idle
        /\ calls < MaxCalls
        /\ VoteWithinBound(question, choice)
        /\ calls' = calls + 1
        /\ overlapped' = (overlapped \/ OthersInFlight(p))
        /\ IF r.done
           THEN /\ last' = [op |-> "execute", sender |-> ProcSender(p),
                            msg |-> msg, result |-> r.result]
                /\ UNCHANGED inflight
           ELSE /\ inflight' = [inflight EXCEPT
                                   ![p] = [pc |-> "vote_save", msg |-> msg,
                                           poll |-> r.poll]]
                /\ UNCHANGED last
        /\ UNCHANGED <<storage, created, tally, prev_read, creates>>

VoteSave(p) ==
    /\ inflight[p].pc = "vote_save"
    /\ LET msg == inflight[p].msg
           r == execute_vote_save(storage, ProcSender(p), msg.question,
                                  inflight[p].poll)
       IN  /\ storage' = r.storage
           /\ last' = [op |-> "execute", sender |-> ProcSender(p),
                       msg |-> msg, result |-> r.result]
           /\ tally' = [tally EXCEPT ![msg.question][msg.choice] = @ + 1]
    /\ inflight' = [inflight EXCEPT ![p] = Idle]
    /\ UNCHANGED <<created, prev_read, overlapped, creates, calls>>

NextConc ==
    \/ \E p \in Procs, q \in Questions : CreatePollCheck(p, q)
    \/ \E p \in Procs : CreatePollSave(p)
    \/ \E p \in Procs, q \in Questions, c \in Choices : VoteLoad(p, q, c)
    \/ \E p \in Procs : VoteSave(p)

SpecConc == Init /\ [][NextConc]_vars

\* ------------------------------------------------------------------------
\* Properties

Present(q) == storage.POLLS[q].some
PollOf(q) == storage.POLLS[q].val

IsInstantiate(l) == l.op = "instantiate"
IsCreatePoll(l, q) ==
    l.op = "execute" /\ l.msg.type = "CreatePoll" /\ l.msg.question = q
IsVote(l, q) ==
    l.op = "execute" /\ l.msg.type = "Vote" /\ l.msg.question = q
IsGetPoll(l, q) ==
    l.op = "query" /\ l.msg.type = "GetPoll" /\ l.msg.question = q
IsGetConfig(l) == l.op = "query" /\ l.msg.type = "GetConfig"

DuplicateKey == Err(CustomError("key already taken"))
NotFound == Err(CustomError("poll doesn't exist!"))
InvalidChoice == Err(CustomError("invalid choice"))

\* C1: once CreatePoll(q) has succeeded, every later CreatePoll(q) returns
\* the error "key already taken", whatever happened in between.
C1_Uniqueness ==
    [][\A q \in Questions :
          (q \in created /\ IsCreatePoll(last', q)) => last'.result = DuplicateKey]_vars

\* A CreatePoll(q) was rejected as a duplicate after votes on q and an
\* Initialize had taken place.
C1_Witness ==
    \E q \in Questions :
        /\ IsCreatePoll(last, q) /\ last.result = DuplicateKey
        /\ q \in created
        /\ PollOf(q).yes_votes + PollOf(q).no_votes > 0
        /\ storage.CONFIG.some

\* Sum of tally[q][c] over a set of choice strings.
RECURSIVE TallySum(_, _)
TallySum(q, cs) ==
    IF cs = {} THEN 0
    ELSE LET c == CHOOSE x \in cs : TRUE
         IN  tally[q][c] + TallySum(q, cs \ {c})

\* C2: for every existing poll q, yes_votes is the number of successful
\* Vote(q, "yes") since q was created, no_votes the number of successful
\* Vote(q, "no"), and their sum the number of all successful votes on q.
C2_TallyCorrect ==
    \A q \in Questions :
        Present(q) =>
            /\ PollOf(q).yes_votes = tally[q]["yes"]
            /\ PollOf(q).no_votes = tally[q]["no"]
            /\ PollOf(q).yes_votes + PollOf(q).no_votes = TallySum(q, Choices)

\* A poll that received two "yes" votes and one "no" vote.
C2_Witness ==
    \E q \in Questions :
        /\ Present(q)
        /\ tally[q]["yes"] = 2 /\ tally[q]["no"] = 1
        /\ PollOf(q).yes_votes = 2 /\ PollOf(q).no_votes = 1

\* C3 (as claimed): an Initialize on a store that already holds a
\* Configuration is rejected.
C3_ReinitRejected ==
    [][(storage.CONFIG.some /\ IsInstantiate(last')) => ~last'.result.ok]_vars

\* C3 (amended): an Initialize on a store that already holds a Configuration
\* succeeds when its admin_address passes validation, and then replaces the
\* stored Configuration by the new address; it fails only when validation
\* fails, with the validation error, and then keeps the Configuration.
C3_ReinitOverwrites ==
    [][(storage.CONFIG.some /\ IsInstantiate(last')) =>
          LET v == addr_validate(last'.msg.admin_address)
          IN  IF v.ok
              THEN /\ last'.result = Ok(Response(<<attr("action", "instantiate")>>))
                   /\ storage'.CONFIG = Some(Config(last'.msg.admin_address))
              ELSE /\ last'.result = Err(v.err)
                   /\ storage'.CONFIG = storage.CONFIG]_vars

\* A second Initialize with another address has succeeded: the stored
\* Configuration holds "addr2" although polls were created under "addr1".
C3_Witness ==
    /\ IsInstantiate(last) /\ last.result.ok
    /\ last.msg.admin_address = "addr2"
    /\ storage.CONFIG = Some(Config("addr2"))
    /\ created # {}

\* C4 (as claimed): once a Configuration is stored it never changes.
C4_ConfigImmutable ==
    [][storage.CONFIG.some => storage'.CONFIG = storage.CONFIG]_vars

\* C4 (amended): a stored Configuration is never removed and is changed by
\* no CreatePoll, Vote, query or failed Initialize; the only step that
\* changes it is a later successful Initialize(b), after which the stored
\* admin_address is b.  GetConfig returns the stored admin_address.
C4_ConfigChangesOnlyByInit ==
    /\ [][storage.CONFIG.some =>
             \/ storage'.CONFIG = storage.CONFIG
             \/ /\ IsInstantiate(last') /\ last'.result.ok
                /\ storage'.CONFIG = Some(Config(last'.msg.admin_address))]_vars
    /\ []((IsGetConfig(last) /\ storage.CONFIG.some) =>
             /\ last.result.ok
             /\ from_binary_Config(last.result.val) = storage.CONFIG.val)

\* GetConfig answered "addr1" after polls were created and votes were cast.
C4_Witness ==
    /\ IsGetConfig(last) /\ last.result.ok
    /\ from_binary_Config(last.result.val) = Config("addr1")
    /\ \E q \in Questions : Present(q) /\ PollOf(q).yes_votes > 0

\* C5: a Vote on a question without a poll returns "poll doesn't exist!"
\* for every choice, valid or not, and leaves the store as it was.
C5_VoteMissingIsNotFound ==
    [][\A q \in Questions :
          (~Present(q) /\ IsVote(last', q)) =>
              /\ last'.result = NotFound
              /\ storage' = storage]_vars

\* A vote with an invalid choice on a missing poll was answered with
\* "poll doesn't exist!" and the poll is still missing.
C5_Witness ==
    \E q \in Questions :
        /\ IsVote(last, q) /\ last.msg.choice \notin {"yes", "no"}
        /\ last.result = NotFound
        /\ ~Present(q)

\* C6: a poll for q is present exactly when some CreatePoll(q) has
\* succeeded; only a successful CreatePoll(q) makes q present, and a poll
\* once present is never removed.
C6_ExistenceIsCreation ==
    /\ [](\A q \in Questions : Present(q) <=> q \in created)
    /\ [][\A q \in Questions :
             /\ Present(q) => Present(q)'
             /\ (~Present(q) /\ Present(q)') =>
                    (IsCreatePoll(last', q) /\ last'.result.ok)]_vars

\* One poll exists, the other question was voted on but never created and
\* is still absent.
C6_Witness ==
    \E q \in Questions, r \in Questions :
        /\ q # r
        /\ Present(q) /\ q \in created
        /\ ~Present(r) /\ r \notin created
        /\ IsVote(last, r) /\ last.msg.choice = "yes"

\* C7: a command that returns an error leaves the stored Configuration and
\* every stored poll exactly as they were.
C7_NoEffectOnFailure ==
    [][(last'.op \in {"instantiate", "execute"} /\ ~last'.result.ok) =>
          /\ storage'.CONFIG = storage.CONFIG
          /\ storage'.POLLS = storage.POLLS]_vars

\* An Initialize with an invalid address failed on a store that holds a
\* Configuration and a poll with votes.
C7_Witness ==
    /\ IsInstantiate(last) /\ ~last.result.ok
    /\ last.msg.admin_address = ""
    /\ storage.CONFIG.some
    /\ \E q \in Questions : Present(q) /\ PollOf(q).no_votes > 0

\* C8: a Vote on an existing poll succeeds exactly when the choice is the
\* string "yes" or the string "no"; any other choice returns "invalid
\* choice" and leaves the poll's counters as they were.
C8_ChoiceValidation ==
    [][\A q \in Questions :
          (Present(q) /\ IsVote(last', q)) =>
              IF last'.msg.choice \in {"yes", "no"}
              THEN last'.result = Ok(Response(<<attr("action", "vote")>>))
              ELSE /\ last'.result = InvalidChoice
                   /\ storage'.POLLS[q] = storage.POLLS[q]]_vars

\* The choice "Yes" was rejected on an existing poll that holds votes.
C8_Witness ==
    \E q \in Questions :
        /\ IsVote(last, q) /\ last.msg.choice = "Yes"
        /\ last.result = InvalidChoice
        /\ Present(q) /\ PollOf(q).yes_votes > 0

\* C9: GetPoll(q) leaves the store unchanged and always succeeds; the
\* response decodes to no poll when q has none, and to the stored poll with
\* its current counters when q has one.
C9_GetPollPure ==
    [][\A q \in Questions :
          IsGetPoll(last', q) =>
              /\ storage' = storage
              /\ last'.result.ok
              /\ from_binary_GetPollResponse(last'.result.val).poll
                     = storage.POLLS[q]]_vars

\* GetPoll answered none for an absent question while another poll exists.
C9_Witness ==
    \E q \in Questions, r \in Questions :
        /\ IsGetPoll(last, q) /\ last.result.ok
        /\ ~Present(q)
        /\ from_binary_GetPollResponse(last.result.val).poll = None
        /\ Present(r) /\ PollOf(r).yes_votes > 0

C11_VoteEffect ==
    [][\A q \in Questions :
          (IsVote(last', q) /\ last'.result.ok) =>
              /\ Present(q)
              /\ storage'.POLLS[q] =
                     IF last'.msg.choice = "yes"
                     THEN Some([PollOf(q) EXCEPT !.yes_votes = @ + 1])
                     ELSE IF last'.msg.choice = "no"
                     THEN Some([PollOf(q) EXCEPT !.no_votes = @ + 1])
                     ELSE None
              /\ \A r \in Questions \ {q} : storage'.POLLS[r] = storage.POLLS[r]
              /\ storage'.CONFIG = storage.CONFIG]_vars

\* A "no" vote on "Q" succeeded while "q" holds a poll with other counters
\* and a Configuration is stored.
C11_Witness ==
    /\ IsVote(last, "Q") /\ last.msg.choice = "no" /\ last.result.ok
    /\ Present("Q") /\ PollOf("Q").no_votes = 1 /\ PollOf("Q").yes_votes = 1
    /\ Present("q") /\ PollOf("q").yes_votes = 2 /\ PollOf("q").no_votes = 0
    /\ storage.CONFIG.some

\* C12: CreatePoll(q) on a store without a poll for q succeeds and stores
\* under q the poll {question: q, yes_votes: 0, no_votes: 0}; a GetPoll(q)
\* on the resulting store returns that poll; every other poll is unchanged.
C12_CreateEffect ==
    [][\A q \in Questions :
          (~Present(q) /\ IsCreatePoll(last', q)) =>
              /\ last'.result = Ok(Response(<<attr("action", "create_poll")>>))
              /\ storage'.POLLS[q] = Some(Poll(q, 0, 0))
              /\ LET resp == query_get_poll(storage', q)
                 IN  /\ resp.ok
                     /\ from_binary_GetPollResponse(resp.val).poll
                            = Some(Poll(q, 0, 0))
              /\ \A r \in Questions \ {q} : storage'.POLLS[r] = storage.POLLS[r]]_vars

\* A poll was just created with 0/0 next to another poll that holds votes.
C12_Witness ==
    \E q \in Questions, r \in Questions :
        /\ q # r
        /\ IsCreatePoll(last, q) /\ last.result.ok
        /\ storage.POLLS[q] = Some(Poll(q, 0, 0))
        /\ Present(r) /\ PollOf(r).yes_votes > 0 /\ PollOf(r).no_votes > 0

\* C13: a successful Initialize(a) stores admin_address a; CreatePoll and
\* Vote leave the stored Configuration alone; GetConfig changes no state,
\* returns the stored Configuration when there is one, and fails with the
\* storage not-found error when there is none, which is the case exactly
\* until the first successful Initialize.
C13_GetConfig ==
    /\ [][(IsInstantiate(last') /\ last'.result.ok) =>
             storage'.CONFIG = Some(Config(last'.msg.admin_address))]_vars
    /\ [][last'.op = "execute" => storage'.CONFIG = storage.CONFIG]_vars
    /\ [][IsGetConfig(last') =>
             /\ storage' = storage
             /\ IF storage.CONFIG.some
                THEN /\ last'.result.ok
                     /\ from_binary_Config(last'.result.val) = storage.CONFIG.val
                ELSE last'.result = Err(StdError("NotFound"))]_vars
    /\ [][(~storage.CONFIG.some /\ storage'.CONFIG.some) =>
             (IsInstantiate(last') /\ last'.result.ok)]_vars

\* GetConfig failed with not-found on a store that holds polls and votes
\* but was never successfully initialized.
C13_Witness ==
    /\ IsGetConfig(last) /\ last.result = Err(StdError("NotFound"))
    /\ ~storage.CONFIG.some
    /\ \E q \in Questions : Present(q) /\ PollOf(q).yes_votes > 0

\* C14: a successful Initialize, CreatePoll or Vote returns a response with
\* exactly one attribute, action, whose value is "instantiate",
\* "create_poll" or "vote" respectively; a failed command carries an error
\* and no response.
ActionOf(l) ==
    IF l.op = "instantiate" THEN "instantiate"
    ELSE IF l.msg.type = "CreatePoll" THEN "create_poll" ELSE "vote"

C14_ActionAttribute ==
    (last.op \in {"instantiate", "execute"}) =>
        IF last.result.ok
        THEN /\ Len(last.result.val.attributes) = 1
             /\ last.result.val.attributes[1] = <<"action", ActionOf(last)>>
        ELSE DOMAIN last.result = {"ok", "err"}

\* A vote has returned the single attribute action = "vote".
C14_Witness ==
    \E q \in Questions :
        /\ IsVote(last, q) /\ last.result.ok
        /\ last.result.val.attributes = <<<<"action", "vote">>>>
        /\ PollOf(q).yes_votes + PollOf(q).no_votes = 2

\* The Configurations a store can hold: none, or a validated address.
StoredConfigs ==
    {None} \cup {Some(Config(addr_validate(a).val)) :
                    a \in {x \in Addresses : addr_validate(x).ok}}

\* C18: the result of a CreatePoll or Vote and the poll collection it leaves
\* are the same for every sender and for every stored Configuration,
\* including none.
C18_NoGating ==
    [][last'.op = "execute" =>
          \A s \in Senders, cfg \in StoredConfigs :
              LET alt == execute([storage EXCEPT !.CONFIG = cfg], s, last'.msg)
              IN  /\ alt.result = last'.result
                  /\ alt.storage.POLLS = storage'.POLLS]_vars

\* A sender other than the admin has voted successfully, and before that a
\* poll was created; the store holds admin "addr1".
C18_Witness ==
    \E q \in Questions :
        /\ IsVote(last, q) /\ last.result.ok
        /\ last.sender = "addr2"
        /\ storage.CONFIG = Some(Config("addr1"))

\* C19: CreatePoll and Vote, successful or failed, never change the stored
\* Configuration; Initialize, successful or failed, first or repeated,
\* never creates, removes or changes a poll.
C19_Independent ==
    /\ [][last'.op = "execute" => storage'.CONFIG = storage.CONFIG]_vars
    /\ [][IsInstantiate(last') => storage'.POLLS = storage.POLLS]_vars

\* A repeated Initialize has replaced the admin while both polls keep
\* their votes.
C19_Witness ==
    /\ IsInstantiate(last) /\ last.result.ok
    /\ storage.CONFIG = Some(Config("addr2"))
    /\ \A q \in Questions : Present(q) /\ PollOf(q).yes_votes = 1
    /\ tally["Q"]["yes"] = 1 /\ tally["q"]["yes"] = 1

VoteSaveStep(p) == inflight[p].pc = "vote_save" /\ inflight'[p] = Idle
CreateSaveStep(p) == inflight[p].pc = "create_save" /\ inflight'[p] = Idle

\* Fewer votes are stored for q than Vote calls on q have succeeded.
LostUpdate(q) ==
    /\ Present(q)
    /\ PollOf(q).yes_votes + PollOf(q).no_votes < TallySum(q, Choices)

\* C16: as long as no execution has begun while another was between its
\* load and its save, no poll holds fewer votes than Vote calls succeeded on
\* it, and a Vote's load followed by its save has the result and the effect
\* of the whole execute_vote on the store it wrote to.  (When two Votes do
\* overlap, a lost update is reachable: see the witness.)
C16_VoteLostUpdateOnlyIfInterleaved ==
    /\ [](~overlapped => \A q \in Questions : ~LostUpdate(q))
    /\ [][\A p \in Procs :
             (VoteSaveStep(p) /\ ~overlapped') =>
                 LET m == inflight[p].msg
                     whole == execute_vote(storage, ProcSender(p),
                                           m.question, m.choice)
                 IN  /\ storage' = whole.storage
                     /\ last'.result = whole.result]_vars

\* Two Votes on the one poll that was created once have both returned
\* success, and the poll holds one vote.
C16_Witness ==
    \E q \in Questions :
        /\ overlapped
        /\ creates[q] = 1
        /\ IsVote(last, q) /\ last.result.ok
        /\ TallySum(q, Choices) = 2
        /\ PollOf(q).yes_votes + PollOf(q).no_votes = 1
        /\ \A p \in Procs : inflight[p] = Idle

\* C17: as long as no execution has begun while another was between its
\* check and its save, CreatePoll succeeds at most once per question, no
\* poll on which votes succeeded holds 0/0, and a CreatePoll's check
\* followed by its save has the result and the effect of the whole
\* execute_create_poll.  (When executions overlap, a second success and the
\* overwrite of a voted poll are reachable: see the witness.)
C17_CreateRaceOnlyIfInterleaved ==
    /\ [](~overlapped =>
             \A q \in Questions :
                 /\ creates[q] <= 1
                 /\ (Present(q) /\ TallySum(q, Choices) > 0) =>
                        PollOf(q) # Poll(q, 0, 0))
    /\ [][\A p \in Procs :
             (CreateSaveStep(p) /\ ~overlapped') =>
                 LET m == inflight[p].msg
                     whole == execute_create_poll(storage, ProcSender(p),
                                                  m.question)
                 IN  /\ storage' = whole.storage
                     /\ last'.result = whole.result]_vars

\* CreatePoll(q) has succeeded twice, and the second save has replaced a
\* poll that held a successful vote by 0/0.
C17_Witness ==
    \E q \in Questions :
        /\ overlapped
        /\ creates[q] = 2
        /\ IsCreatePoll(last, q) /\ last.result.ok
        /\ TallySum(q, Choices) = 1
        /\ PollOf(q) = Poll(q, 0, 0)

====
